---- MODULE Spec2Model ----
(***************************************************************************)
(* The transform execution kernel of engine-server (src/main.rs): the      *)
(* content-addressed state store, the transform registry, the trace log    *)
(* and execute_graph, stepped node firing by node firing.                  *)
(*                                                                         *)
(* Bytes are sequences of character codes.  A serde_json::Value is a       *)
(* tagged tree; to_vec and from_slice convert between the two.             *)
(***************************************************************************)
EXTENDS Integers, Sequences, FiniteSets, TLC

\* ------------------------------------------------------------------ bounds
\* number of execute_graph calls made in one behaviour
MaxRuns == 2

\* ------------------------------------------------------- character codes
NL == 10
SP == 32
QUOTE == 34
COMMA == 44
COLON == 58
LBRACKET == 91
RBRACKET == 93
LBRACE == 123
RBRACE == 125
Digits == 48..57

IsWs(c) == c \in {NL, SP}

\* ------------------------------------------------------ serde_json::Value
JNull == [t |-> "null"]
JNum(n) == [t |-> "num", n |-> n]
JStr(s) == [t |-> "str", s |-> s]
JArr(a) == [t |-> "arr", a |-> a]
\* an object is its key/value pairs in key order (serde_json's Map is a BTreeMap)
JObj(kv) == [t |-> "obj", kv |-> kv]

RECURSIVE ToVec(_)
RECURSIVE JoinVec(_, _)
\* the serialisations of the elements of a, separated by commas
JoinVec(a, i) ==
    IF i > Len(a) THEN <<>>
    ELSE (IF i > 1 THEN <<COMMA>> ELSE <<>>) \o ToVec(a[i]) \o JoinVec(a, i + 1)

RECURSIVE JoinPairs(_, _)
JoinPairs(kv, i) ==
    IF i > Len(kv) THEN <<>>
    ELSE (IF i > 1 THEN <<COMMA>> ELSE <<>>)
         \o <<QUOTE>> \o kv[i][1] \o <<QUOTE, COLON>> \o ToVec(kv[i][2])
         \o JoinPairs(kv, i + 1)

\* serde_json::to_vec: compact, no insignificant whitespace
ToVec(v) ==
    CASE v.t = "null" -> <<110, 117, 108, 108>>
      [] v.t = "num" -> <<48 + v.n>>
      [] v.t = "str" -> <<QUOTE>> \o v.s \o <<QUOTE>>
      [] v.t = "arr" -> <<LBRACKET>> \o JoinVec(v.a, 1) \o <<RBRACKET>>
      [] v.t = "obj" -> <<LBRACE>> \o JoinPairs(v.kv, 1) \o <<RBRACE>>

\* result of a parse step: the value and the position after it
ParseFail == [ok |-> FALSE, val |-> JNull, next |-> 0]
ParseOk(v, n) == [ok |-> TRUE, val |-> v, next |-> n]

RECURSIVE SkipWs(_, _)
SkipWs(b, i) == IF i <= Len(b) /\ IsWs(b[i]) THEN SkipWs(b, i + 1) ELSE i

RECURSIVE StrEnd(_, _)
\* position of the closing quote of a string whose body starts at i, 0 if none
StrEnd(b, i) ==
    IF i > Len(b) THEN 0
    ELSE IF b[i] = QUOTE THEN i
    ELSE StrEnd(b, i + 1)

RECURSIVE ParseValue(_, _)
RECURSIVE ParseElems(_, _, _)
RECURSIVE ParseMembers(_, _, _)

ParseElems(b, i, acc) ==
    LET r == ParseValue(b, i)
        k == SkipWs(b, r.next)
    IN  IF ~r.ok \/ k > Len(b) THEN ParseFail
        ELSE IF b[k] = COMMA THEN ParseElems(b, k + 1, Append(acc, r.val))
        ELSE IF b[k] = RBRACKET THEN ParseOk(JArr(Append(acc, r.val)), k + 1)
        ELSE ParseFail

\* inserting a key into the BTreeMap behind an object: sorted, last one wins
RECURSIVE MapInsert(_, _, _)
RECURSIVE SeqLess(_, _, _)
SeqLess(s, u, i) ==
    IF i > Len(u) THEN FALSE
    ELSE IF i > Len(s) THEN TRUE
    ELSE IF s[i] # u[i] THEN s[i] < u[i]
    ELSE SeqLess(s, u, i + 1)
MapInsert(kv, key, val) ==
    IF kv = <<>> THEN <<<<key, val>>>>
    ELSE IF kv[1][1] = key THEN <<<<key, val>>>> \o Tail(kv)
    ELSE IF SeqLess(key, kv[1][1], 1) THEN <<<<key, val>>>> \o kv
    ELSE <<kv[1]>> \o MapInsert(Tail(kv), key, val)

ParseMembers(b, i, acc) ==
    LET j == SkipWs(b, i)
        e == IF j <= Len(b) /\ b[j] = QUOTE THEN StrEnd(b, j + 1) ELSE 0
        c == IF e = 0 THEN 0 ELSE SkipWs(b, e + 1)
    IN  IF e = 0 \/ c > Len(b) \/ b[c] # COLON THEN ParseFail
        ELSE LET r == ParseValue(b, c + 1)
                 k == SkipWs(b, r.next)
                 key == SubSeq(b, j + 1, e - 1)
             IN  IF ~r.ok \/ k > Len(b) THEN ParseFail
                 ELSE IF b[k] = COMMA
                      THEN ParseMembers(b, k + 1, MapInsert(acc, key, r.val))
                 ELSE IF b[k] = RBRACE
                      THEN ParseOk(JObj(MapInsert(acc, key, r.val)), k + 1)
                 ELSE ParseFail

ParseValue(b, i) ==
    LET j == SkipWs(b, i) IN
    IF j > Len(b) THEN ParseFail
    ELSE IF b[j] \in Digits THEN ParseOk(JNum(b[j] - 48), j + 1)
    ELSE IF b[j] = QUOTE
         THEN LET e == StrEnd(b, j + 1)
              IN  IF e = 0 THEN ParseFail
                  ELSE ParseOk(JStr(SubSeq(b, j + 1, e - 1)), e + 1)
    ELSE IF b[j] = LBRACKET
         THEN LET k == SkipWs(b, j + 1)
              IN  IF k > Len(b) THEN ParseFail
                  ELSE IF b[k] = RBRACKET THEN ParseOk(JArr(<<>>), k + 1)
                  ELSE ParseElems(b, k, <<>>)
    ELSE IF b[j] = LBRACE
         THEN LET k == SkipWs(b, j + 1)
              IN  IF k > Len(b) THEN ParseFail
                  ELSE IF b[k] = RBRACE THEN ParseOk(JObj(<<>>), k + 1)
                  ELSE ParseMembers(b, k, <<>>)
    ELSE ParseFail

\* serde_json::from_slice: one value, then only whitespace
FromSlice(b) ==
    LET r == ParseValue(b, 1)
    IN  IF r.ok /\ SkipWs(b, r.next) > Len(b) THEN r ELSE ParseFail

\* ------------------------------------------------------------- hashing
\* hex(SHA-256(bytes)): distinct bytes give distinct digests, and no digest
\* is the empty string
Sha256Hex(bytes) == <<104>> \o bytes
EmptyString == <<>>

\* ---------------------------------------------------- files of the store
\* states/<hash>.json as a function from hash to the bytes of the file;
\* wrote tells whether persist_state called fs::write
\* variant: the file is written whether it exists or not
PersistStateAlways(store, payload) ==
    LET bytes == ToVec(payload)
        hash == Sha256Hex(bytes)
    IN  [hash |-> hash,
         wrote |-> TRUE,
         states |-> [k \in DOMAIN store \cup {hash} |->
                        IF k = hash THEN bytes ELSE store[k]]]

\* variant: the file gets another serialisation than the one hashed
PersistStatePretty(store, payload) ==
    LET bytes == ToVec(payload)
        hash == Sha256Hex(bytes)
    IN  [hash |-> hash,
         wrote |-> hash \notin DOMAIN store,
         states |-> IF hash \in DOMAIN store
                    THEN store
                    ELSE [k \in DOMAIN store \cup {hash} |->
                             IF k = hash THEN bytes \o <<NL>> ELSE store[k]]]

\* variant: the address also depends on how many files the store holds
PersistStateSalted(store, payload) ==
    LET bytes == ToVec(payload)
        hash == Sha256Hex(bytes \o <<48 + Cardinality(DOMAIN store)>>)
    IN  [hash |-> hash,
         wrote |-> hash \notin DOMAIN store,
         states |-> IF hash \in DOMAIN store
                    THEN store
                    ELSE [k \in DOMAIN store \cup {hash} |->
                             IF k = hash THEN bytes ELSE store[k]]]

PersistState(store, payload) ==
    LET bytes == ToVec(payload)
        hash == Sha256Hex(bytes)
    IN  [hash |-> hash,
         wrote |-> hash \notin DOMAIN store,
         states |-> IF hash \in DOMAIN store
                    THEN store
                    ELSE [k \in DOMAIN store \cup {hash} |->
                             IF k = hash THEN bytes ELSE store[k]]]

\* variant: a missing state file reads as null
LoadStateLenient(store, hash) ==
    IF hash \notin DOMAIN store
    THEN [ok |-> TRUE, val |-> JNull, err |-> ""]
    ELSE LET r == FromSlice(store[hash])
         IN  IF r.ok THEN [ok |-> TRUE, val |-> r.val, err |-> ""]
             ELSE [ok |-> FALSE, val |-> JNull, err |-> "invalid json"]

LoadState(store, hash) ==
    IF hash \notin DOMAIN store
    THEN [ok |-> FALSE, val |-> JNull, err |-> "state not found"]
    ELSE LET r == FromSlice(store[hash])
         IN  IF r.ok THEN [ok |-> TRUE, val |-> r.val, err |-> ""]
             ELSE [ok |-> FALSE, val |-> JNull, err |-> "invalid json"]

\* ------------------------------------------------------------- registry
\* exec_command is a sequence of words and runs of whitespace (" ")
SplitWhitespace(cmd) == SelectSeq(cmd, LAMBDA w : w # " ")

NoSpec == [id |-> "", exec_command |-> <<>>]

\* variant: an id missing from the registry loads as the identity transform
LoadTransformDefault(reg, id) ==
    IF id \in DOMAIN reg
    THEN [ok |-> TRUE, spec |-> reg[id], err |-> ""]
    ELSE [ok |-> TRUE, spec |-> [id |-> id, exec_command |-> <<"cat">>], err |-> ""]

LoadTransform(reg, id) ==
    IF id \in DOMAIN reg
    THEN [ok |-> TRUE, spec |-> reg[id], err |-> ""]
    ELSE [ok |-> FALSE, spec |-> NoSpec, err |-> "transform not found"]

\* the transforms a client registers; the id "ghost" is never registered
TransformSpecs ==
    { [id |-> "cat", exec_command |-> <<"cat">>],
      [id |-> "echo7", exec_command |-> <<"sh", " ", "echo7">>],
      [id |-> "false", exec_command |-> <<"false">>],
      [id |-> "nosuch", exec_command |-> <<"nosuch">>],
      [id |-> "true", exec_command |-> <<" ", "true">>],
      [id |-> "junk", exec_command |-> <<"junk">>],
      [id |-> "blank", exec_command |-> <<" ">>] }

\* --------------------------------------------- transform child processes
\* The programs behind the exec_commands, each a deterministic function of
\* its input file (the protocol of the doc comment of run_transform_with_io).
\*   spawn: the program could be started;  code: its exit status;
\*   out: the output file it wrote, if any (a sequence of at most one file)
Program(parts, input) ==
    LET prog == parts[1]
        last == parts[Len(parts)]
    IN  CASE prog = "cat" ->
               [spawn |-> TRUE, code |-> 0, stderr |-> "", out |-> <<input>>]
          [] prog = "sh" /\ last = "echo7" ->
               [spawn |-> TRUE, code |-> 0, stderr |-> "", out |-> <<<<55, NL>>>>]
          [] prog = "false" ->
               [spawn |-> TRUE, code |-> 1, stderr |-> "boom", out |-> <<>>]
          [] prog = "true" ->
               [spawn |-> TRUE, code |-> 0, stderr |-> "", out |-> <<>>]
          [] prog = "junk" ->
               [spawn |-> TRUE, code |-> 0, stderr |-> "", out |-> <<<<LBRACKET, 55>>>>]
          [] OTHER ->
               [spawn |-> FALSE, code |-> -1, stderr |-> "", out |-> <<>>]

\* ------------------------------------------------------------ GraphSpec
NameBytes(name) ==
    CASE name = "A" -> <<65>>
      [] name = "B" -> <<66>>
      [] name = "C" -> <<67>>
      [] OTHER -> <<88>>

Edge(a, b) == [from |-> a, to |-> b]

\* names, edges and sinks of the graphs submitted
Shapes ==
    { [names |-> <<"A">>, edges |-> <<>>, sinks |-> <<"A">>],
      [names |-> <<"A">>, edges |-> <<Edge("A", "A")>>, sinks |-> <<"A">>],
      [names |-> <<"A", "B">>, edges |-> <<>>, sinks |-> <<"A", "B">>],
      [names |-> <<"A", "B">>, edges |-> <<Edge("A", "B")>>, sinks |-> <<"B">>],
      [names |-> <<"A", "B">>, edges |-> <<Edge("A", "B"), Edge("B", "A")>>,
       sinks |-> <<"B">>],
      [names |-> <<"A", "B">>, edges |-> <<Edge("X", "B"), Edge("A", "B")>>,
       sinks |-> <<"B">>],
      [names |-> <<"A", "B">>, edges |-> <<Edge("A", "B"), Edge("B", "X")>>,
       sinks |-> <<"B">>],
      [names |-> <<"A", "B">>, edges |-> <<Edge("A", "B"), Edge("A", "B")>>,
       sinks |-> <<"B">>],
      [names |-> <<"A", "B", "C">>, edges |-> <<Edge("A", "B"), Edge("B", "C")>>,
       sinks |-> <<"C">>],
      [names |-> <<"A", "B", "C">>, edges |-> <<Edge("A", "B"), Edge("A", "C")>>,
       sinks |-> <<"B", "C">>],
      [names |-> <<"A", "B", "C">>, edges |-> <<Edge("A", "C"), Edge("B", "C")>>,
       sinks |-> <<"A", "C">>],
      [names |-> <<"A", "B", "C">>,
       edges |-> <<Edge("A", "B"), Edge("B", "C"), Edge("C", "B")>>,
       sinks |-> <<"A", "C">>] }

\* transform ids a node may name
Palette(n) ==
    IF n <= 2
    THEN {"cat", "echo7", "false", "nosuch", "true", "junk", "blank", "ghost"}
    ELSE {"cat", "echo7", "false", "nosuch", "ghost"}

GraphSpecs ==
    UNION { { [nodes |-> [i \in 1..Len(s.names) |->
                             [name |-> s.names[i], transform_id |-> a[i]]],
               edges |-> s.edges,
               sinks |-> s.sinks] :
              a \in [1..Len(s.names) -> Palette(Len(s.names))] } : s \in Shapes }

\* ------------------------------------------------- petgraph::graph::DiGraph
\* index of a name in node_map (a later node of the same name replaces an
\* earlier one), 0 when the name is not a key
NodeIndexOf(nodes, name) ==
    LET hits == {i \in 1..Len(nodes) : nodes[i].name = name}
    IN  IF hits = {} THEN 0 ELSE CHOOSE i \in hits : \A j \in hits : j <= i

RECURSIVE AddEdgesSkip(_, _, _, _)
\* variant: an edge with an unknown endpoint is skipped
AddEdgesSkip(nodes, edges, i, acc) ==
    IF i > Len(edges) THEN [ok |-> TRUE, err |-> "", edges |-> acc]
    ELSE LET a == NodeIndexOf(nodes, edges[i].from)
             b == NodeIndexOf(nodes, edges[i].to)
         IN  IF a = 0 \/ b = 0 THEN AddEdgesSkip(nodes, edges, i + 1, acc)
             ELSE AddEdgesSkip(nodes, edges, i + 1, Append(acc, <<a, b>>))

RECURSIVE AddEdges(_, _, _, _)
\* the loop over graph_spec.edges: stops at the first unknown endpoint
AddEdges(nodes, edges, i, acc) ==
    IF i > Len(edges) THEN [ok |-> TRUE, err |-> "", edges |-> acc]
    ELSE LET a == NodeIndexOf(nodes, edges[i].from)
             b == NodeIndexOf(nodes, edges[i].to)
         IN  IF a = 0 THEN [ok |-> FALSE, err |-> "edge from unknown node", edges |-> acc]
             ELSE IF b = 0 THEN [ok |-> FALSE, err |-> "edge to unknown node", edges |-> acc]
             ELSE AddEdges(nodes, edges, i + 1, Append(acc, <<a, b>>))

\* the graph of execute_graph: node weights (names) by index, edges by index
BuildGraph(gs) ==
    LET r == AddEdges(gs.nodes, gs.edges, 1, <<>>)
    IN  [ok |-> r.ok, err |-> r.err,
         names |-> [i \in 1..Len(gs.nodes) |-> gs.nodes[i].name],
         edges |-> r.edges]

RECURSIVE EdgeEnds(_, _, _, _)
\* petgraph walks a node's edge list from the most recently added edge:
\* the other ends of the edges whose end `side` is n, newest edge first
EdgeEnds(edges, n, side, i) ==
    IF i = 0 THEN <<>>
    ELSE (IF edges[i][side] = n THEN <<edges[i][3 - side]>> ELSE <<>>)
         \o EdgeEnds(edges, n, side, i - 1)

\* graph.neighbors_directed(n, Incoming) and graph.neighbors(n)
\* variant: the edge lists are walked in the wrong direction
IncomingOutgoing(g, n) == EdgeEnds(g.edges, n, 1, Len(g.edges))

Incoming(g, n) == EdgeEnds(g.edges, n, 2, Len(g.edges))
Outgoing(g, n) == EdgeEnds(g.edges, n, 1, Len(g.edges))

SeqToSet(s) == {s[i] : i \in 1..Len(s)}

\* ---------------------------------------------------- petgraph::visit::Topo
\* Topo::new: the nodes without incoming edge, in index order, on a stack
TopoNew(g) ==
    [tovisit |-> SelectSeq([i \in 1..Len(g.names) |-> i],
                           LAMBDA n : Incoming(g, n) = <<>>),
     ordered |-> {}]

RECURSIVE PushReady(_, _, _, _)
\* push every neighbour all of whose incoming neighbours are ordered
PushReady(g, neighs, stack, ordered) ==
    IF neighs = <<>> THEN stack
    ELSE PushReady(g, Tail(neighs),
                   IF SeqToSet(Incoming(g, Head(neighs))) \subseteq ordered
                   THEN Append(stack, Head(neighs)) ELSE stack,
                   ordered)

RECURSIVE TopoNext(_, _)
\* Topo::next: pop until an unvisited node comes up
TopoNext(topo, g) ==
    IF topo.tovisit = <<>> THEN [some |-> FALSE, nx |-> 0, topo |-> topo]
    ELSE LET n == Len(topo.tovisit)
             nix == topo.tovisit[n]
             rest == SubSeq(topo.tovisit, 1, n - 1)
         IN  IF nix \in topo.ordered
             THEN TopoNext([tovisit |-> rest, ordered |-> topo.ordered], g)
             ELSE LET ord == topo.ordered \cup {nix}
                  IN  [some |-> TRUE, nx |-> nix,
                       topo |-> [tovisit |-> PushReady(g, Outgoing(g, nix), rest, ord),
                                 ordered |-> ord]]

\* ------------------------------------------------------- run_transform_with_io
\* Uuid::new_v4().to_string(): a fresh string for every counter value
\* variant: every UUID drawn is the same string
UuidStrFixed(n) == <<1000>>

UuidStr(n) == <<1000 + n>>
\* a chrono timestamp as text
TimeStr(t) == <<2000 + t>>

TmpFile(kind, n) == [kind |-> kind, id |-> n]
NoFile == TmpFile("none", 0)
NoTmp == [f \in {} |-> <<>>]

NoTrace ==
    [trace_id |-> <<>>, execution_id |-> <<>>, transform_id |-> "",
     inputs_hash |-> <<>>, outputs_hash |-> <<>>,
     resource_usage |-> [key |-> "", value |-> 0], error |-> <<>>]

RemoveFile(files, f) == [k \in DOMAIN files \ {f} |-> files[k]]
WriteFile(files, f, bytes) ==
    [k \in DOMAIN files \cup {f} |-> IF k = f THEN bytes ELSE files[k]]

\* variant: a non-zero exit status is returned as an error
CollectStrict(store, files, tr, in_hash, execution_id, exited, in_file, out_file, trace_id) ==
    IF exited.code # 0 \/ out_file \notin DOMAIN files \/ ~FromSlice(files[out_file]).ok
    THEN [ok |-> FALSE, err |-> "transform failed",
          output_hash |-> EmptyString, trace |-> NoTrace,
          states |-> store, tmp |-> files]
    ELSE LET output_bytes == files[out_file]
             p == PersistState(store, FromSlice(output_bytes).val)
         IN  [ok |-> TRUE, err |-> "", output_hash |-> p.hash,
              trace |-> [trace_id |-> trace_id, execution_id |-> execution_id,
                         transform_id |-> tr.id, inputs_hash |-> in_hash,
                         outputs_hash |-> p.hash,
                         resource_usage |-> [key |-> "output_bytes",
                                             value |-> Len(output_bytes)],
                         error |-> <<>>],
              states |-> p.states,
              tmp |-> RemoveFile(RemoveFile(files, in_file), out_file)]

\* variant: the output's hash is traced and returned but its state is not stored
CollectUnsaved(store, files, tr, in_hash, execution_id, exited, in_file, out_file, trace_id) ==
    IF exited.code # 0
    THEN [ok |-> TRUE, err |-> "", output_hash |-> EmptyString,
          trace |-> [trace_id |-> trace_id, execution_id |-> execution_id,
                     transform_id |-> tr.id, inputs_hash |-> in_hash,
                     outputs_hash |-> EmptyString,
                     resource_usage |-> [key |-> "exit_code", value |-> exited.code],
                     error |-> <<exited.stderr>>],
          states |-> store, tmp |-> files]
    ELSE IF out_file \notin DOMAIN files
    THEN [ok |-> FALSE, err |-> "expected transform to write output",
          output_hash |-> EmptyString, trace |-> NoTrace,
          states |-> store, tmp |-> files]
    ELSE LET output_bytes == files[out_file]
             r == FromSlice(output_bytes)
         IN  IF ~r.ok
             THEN [ok |-> FALSE, err |-> "invalid json",
                   output_hash |-> EmptyString, trace |-> NoTrace,
                   states |-> store, tmp |-> files]
             ELSE [ok |-> TRUE, err |-> "", output_hash |-> Sha256Hex(ToVec(r.val)),
                   trace |-> [trace_id |-> trace_id, execution_id |-> execution_id,
                              transform_id |-> tr.id, inputs_hash |-> in_hash,
                              outputs_hash |-> Sha256Hex(ToVec(r.val)),
                              resource_usage |-> [key |-> "output_bytes",
                                                  value |-> Len(output_bytes)],
                              error |-> <<>>],
                   states |-> store,
                   tmp |-> RemoveFile(RemoveFile(files, in_file), out_file)]

\* What run_transform_with_io does once cmd.output() has returned the exit
\* status of the child: the failure trace, or the output read, parsed and
\* persisted, the success trace and the removal of the two temp files.
\* error is an Option: <<>> for None, <<text>> for Some(text).
\* (the wall-clock fields timestamp and duration_ms of a trace are left out)
Collect(store, files, tr, in_hash, execution_id, exited, in_file, out_file, trace_id) ==
    IF exited.code # 0
    THEN [ok |-> TRUE, err |-> "", output_hash |-> EmptyString,
          trace |-> [trace_id |-> trace_id, execution_id |-> execution_id,
                     transform_id |-> tr.id, inputs_hash |-> in_hash,
                     outputs_hash |-> EmptyString,
                     resource_usage |-> [key |-> "exit_code", value |-> exited.code],
                     error |-> <<exited.stderr>>],
          states |-> store, tmp |-> files]
    ELSE IF out_file \notin DOMAIN files
    THEN [ok |-> FALSE, err |-> "expected transform to write output",
          output_hash |-> EmptyString, trace |-> NoTrace,
          states |-> store, tmp |-> files]
    ELSE LET output_bytes == files[out_file]
             r == FromSlice(output_bytes)
             p == PersistState(store, r.val)
         IN  IF ~r.ok
             THEN [ok |-> FALSE, err |-> "invalid json",
                   output_hash |-> EmptyString, trace |-> NoTrace,
                   states |-> store, tmp |-> files]
             ELSE [ok |-> TRUE, err |-> "", output_hash |-> p.hash,
                   trace |-> [trace_id |-> trace_id, execution_id |-> execution_id,
                              transform_id |-> tr.id, inputs_hash |-> in_hash,
                              outputs_hash |-> p.hash,
                              resource_usage |-> [key |-> "output_bytes",
                                                  value |-> Len(output_bytes)],
                              error |-> <<>>],
                   states |-> p.states,
                   tmp |-> RemoveFile(RemoveFile(files, in_file), out_file)]

\* ------------------------------------------------------------ execute_graph
NoOutputs == [n \in {} |-> EmptyString]

RECURSIVE GatherPreds(_, _, _, _, _)
\* the loop over preds: the output state of each predecessor, in order
GatherPreds(store, preds, outs, i, merged) ==
    IF i > Len(preds) THEN [ok |-> TRUE, err |-> "", merged |-> merged]
    ELSE IF preds[i] \in DOMAIN outs
         THEN LET st == LoadState(store, outs[preds[i]])
              IN  IF st.ok
                  THEN GatherPreds(store, preds, outs, i + 1, Append(merged, st.val))
                  ELSE [ok |-> FALSE, err |-> st.err, merged |-> merged]
    ELSE [ok |-> FALSE, err |-> "Missing output from predecessor", merged |-> merged]

\* variant: the root input is merged in front of the predecessors' outputs
MergeInputsWithRoot(store, preds, outs, root_input_hash) ==
    LET root == LoadState(store, root_input_hash)
    IN  IF ~root.ok THEN [ok |-> FALSE, err |-> root.err, merged |-> <<>>]
        ELSE GatherPreds(store, preds, outs, 1, <<root.val>>)

\* the states merged into the input of a node
MergeInputs(store, preds, outs, root_input_hash) ==
    IF preds = <<>>
    THEN LET root == LoadState(store, root_input_hash)
         IN  IF root.ok THEN [ok |-> TRUE, err |-> "", merged |-> <<root.val>>]
             ELSE [ok |-> FALSE, err |-> root.err, merged |-> <<>>]
    ELSE GatherPreds(store, preds, outs, 1, <<>>)

\* graph_spec.nodes.iter().find(|n| n.name == node_name)
FindNode(nodes, name) ==
    LET hits == {i \in 1..Len(nodes) : nodes[i].name = name}
    IN  nodes[CHOOSE i \in hits : \A j \in hits : i <= j]

RECURSIVE FinalOutputs(_, _, _)
\* the final_outputs HashMap: the sinks that have an entry in outputs
FinalOutputs(sinks, outs, i) ==
    IF i > Len(sinks) THEN NoOutputs
    ELSE LET rest == FinalOutputs(sinks, outs, i + 1)
             sink == sinks[i]
         IN  IF sink \in DOMAIN outs
             THEN [k \in DOMAIN rest \cup {sink} |->
                      IF k = sink THEN outs[sink] ELSE rest[k]]
             ELSE rest

RECURSIVE MapOfOutputs(_, _)
\* serde_json::to_value of the HashMap: an object with its keys in order
MapOfOutputs(fo, todo) ==
    IF todo = {} THEN <<>>
    ELSE LET k == CHOOSE n \in todo : TRUE
         IN  MapInsert(MapOfOutputs(fo, todo \ {k}), NameBytes(k), JStr(fo[k]))

KeyExecutionId == <<101, 120, 101, 99, 117, 116, 105, 111, 110, 95, 105, 100>>
KeyFinalOutputs == <<102, 105, 110, 97, 108, 95, 111, 117, 116, 112, 117, 116, 115>>
KeyTimestamp == <<116, 105, 109, 101, 115, 116, 97, 109, 112>>

\* the json! of the execution summary
Summary(execution_id, fo, now) ==
    JObj(MapInsert(MapInsert(MapInsert(<<>>,
            KeyExecutionId, JStr(execution_id)),
            KeyFinalOutputs, JObj(MapOfOutputs(fo, DOMAIN fo))),
            KeyTimestamp, JStr(TimeStr(now))))

\* -------------------------------------------------------------- the state
VARIABLES
    states,            \* kernel_store/states: hash -> bytes
    registry,          \* kernel_store/registry/transforms: id -> TransformSpec
    traces,            \* kernel_store/traces/traces.jsonl, a record per line
    tmp,               \* kernel_store/tmp: file -> bytes
    uuid,              \* number of UUIDs drawn so far
    clock,             \* the wall clock
    graph_spec,        \* the GraphSpec the client submits
    pc,                \* where the execute_graph call stands
    input_state_hash,  \* its argument
    outputs,           \* node name -> output state hash
    topo,              \* the Topo walker
    exec_id,
    node,              \* name of the node being fired
    input_hash,        \* hash of its assembled input
    transform,         \* its TransformSpec
    input_file,
    output_file,
    child,             \* the child process of cmd.output()
    result,            \* what the call returned
    attempts,          \* the children this call tried to spawn: node and outcome
    entry,             \* the trace log, store and tmp contents when the call began
    history,           \* the calls that have returned
    \* a client calling the store and the registry between its graphs
    calls,             \* its persist_state calls: value, hash returned, file written or not
    last_load,         \* what its last load_state call returned
    \* processes sharing the storage root
    cpc,               \* where each process stands
    cjob,              \* the hash and bytes of the persist_state it is in
    cobs,              \* what its last load_state read
    cops,              \* number of calls it has made
    trace_file,        \* traces.jsonl as the sequence of the writes appended to it
    \* a Wavefield
    width,
    height,
    prev,
    curr,
    next,
    wlast,             \* the last call made on it and the fields before the call
    wops               \* number of calls made on it

kernel_vars == <<states, registry, traces, tmp, uuid, clock, graph_spec, pc,
                 input_state_hash, outputs, topo, exec_id, node, input_hash, transform,
                 input_file, output_file, child, result, attempts, entry, history>>
client_vars == <<calls, last_load>>
conc_vars == <<cpc, cjob, cobs, cops, trace_file>>
wave_vars == <<width, height, prev, curr, next, wlast, wops>>
vars == <<kernel_vars, client_vars, conc_vars, wave_vars>>

store_vars == <<states, traces, tmp>>
firing_vars == <<node, input_hash, transform, input_file, output_file, child>>

NoResult == [status |-> "none", value |-> EmptyString, error |-> ""]
Ok(h) == [status |-> "ok", value |-> h, error |-> ""]
Err(e) == [status |-> "err", value |-> EmptyString, error |-> e]
NoChild == [running |-> FALSE, code |-> 0, stderr |-> ""]
\* a load_state result: the file was there or not, its bytes, whether they parse
NoLoad == [hash |-> EmptyString, found |-> FALSE, bytes |-> <<>>, ok |-> FALSE]
NoJob == [hash |-> EmptyString, bytes |-> <<>>]

\* the states a client has persisted before it submits graphs
RootDocs == {JNum(1), JNum(2)}
InitStates ==
    [h \in {Sha256Hex(ToVec(d)) : d \in RootDocs} |->
        ToVec(CHOOSE d \in RootDocs : Sha256Hex(ToVec(d)) = h)]
\* the input hashes submitted: two persisted states and one that is not
InputHashes == {Sha256Hex(ToVec(JNum(n))) : n \in 1..3}

KernelInit ==
    /\ states = InitStates
    /\ registry = [id \in {s.id : s \in TransformSpecs} |->
                      CHOOSE s \in TransformSpecs : s.id = id]
    /\ traces = <<>>
    /\ tmp = NoTmp
    /\ uuid = 0
    /\ clock = 0
    /\ graph_spec \in GraphSpecs
    /\ pc = "idle"
    /\ input_state_hash = EmptyString
    /\ outputs = NoOutputs
    /\ topo = [tovisit |-> <<>>, ordered |-> {}]
    /\ exec_id = EmptyString
    /\ node = ""
    /\ input_hash = EmptyString
    /\ transform = NoSpec
    /\ input_file = NoFile
    /\ output_file = NoFile
    /\ child = NoChild
    /\ result = NoResult
    /\ attempts = <<>>
    /\ entry = [traces |-> 0, states |-> DOMAIN InitStates, tmp |-> {}]
    /\ history = <<>>

\* no client call made yet
ClientInit ==
    /\ calls = <<>>
    /\ last_load = NoLoad

Procs == {1, 2}
\* no process at work on the storage root
ConcInit ==
    /\ cpc = [p \in Procs |-> "idle"]
    /\ cjob = [p \in Procs |-> NoJob]
    /\ cobs = [p \in Procs |-> NoLoad]
    /\ cops = [p \in Procs |-> 0]
    /\ trace_file = <<>>

NoCall == [op |-> "none", x |-> 0, y |-> 0, value |-> 0,
           prev |-> <<>>, curr |-> <<>>, next |-> <<>>]
\* no Wavefield constructed (an empty one)
WaveInit ==
    /\ width = 0
    /\ height = 0
    /\ prev = <<>>
    /\ curr = <<>>
    /\ next = <<>>
    /\ wlast = NoCall
    /\ wops = 0

Init ==
    /\ KernelInit
    /\ ClientInit
    /\ ConcInit
    /\ WaveInit

\* the call on input h returns res; fo is the final_outputs map it built, if it got there
\* (from, to] are the lines of the trace log the call appended
Returns(h, from, res, fo) ==
    /\ pc' = "idle"
    /\ result' = res
    /\ history' = Append(history, [input |-> h, result |-> res,
                                   final_outputs |-> fo,
                                   from |-> from, to |-> Len(traces)])
Return(res, fo) == Returns(input_state_hash, entry.traces, res, fo)

\* execute_graph is called: the graph is built and the Topo walker set up
ExecuteGraph(h) ==
    /\ pc = "idle"
    /\ Len(history) < MaxRuns
    /\ input_state_hash' = h
    /\ outputs' = NoOutputs
    /\ attempts' = <<>>
    /\ entry' = [traces |-> Len(traces), states |-> DOMAIN states, tmp |-> DOMAIN tmp]
    /\ node' = ""
    /\ input_hash' = EmptyString
    /\ transform' = NoSpec
    /\ input_file' = NoFile
    /\ output_file' = NoFile
    /\ child' = NoChild
    /\ LET graph == BuildGraph(graph_spec)
       IN  IF ~graph.ok
           THEN /\ Returns(h, Len(traces), Err(graph.err), NoOutputs)
                /\ topo' = [tovisit |-> <<>>, ordered |-> {}]
                /\ UNCHANGED <<exec_id, uuid>>
           ELSE /\ topo' = TopoNew(graph)
                /\ exec_id' = UuidStr(uuid)
                /\ uuid' = uuid + 1
                /\ pc' = "next"
                /\ result' = NoResult
                /\ UNCHANGED history
    /\ UNCHANGED <<store_vars, registry, clock, graph_spec>>
    /\ UNCHANGED <<client_vars, conc_vars, wave_vars>>

\* one turn of the while loop up to load_transform: the next node of the
\* order, its merged input persisted, its transform loaded
NextNode ==
    /\ pc = "next"
    /\ LET graph == BuildGraph(graph_spec)
           t == TopoNext(topo, graph)
       IN  /\ topo' = t.topo
           /\ IF ~t.some
              THEN /\ pc' = "summary"
                   /\ UNCHANGED <<states, node, input_hash, transform, result, history>>
              ELSE LET node_name == graph.names[t.nx]
                       inc == Incoming(graph, t.nx)
                       preds == [i \in 1..Len(inc) |-> graph.names[inc[i]]]
                       m == MergeInputs(states, preds, outputs, input_state_hash)
                       p == PersistState(states, JArr(m.merged))
                       node_spec == FindNode(graph_spec.nodes, node_name)
                       tr == LoadTransform(registry, node_spec.transform_id)
                   IN  /\ node' = node_name
                       /\ IF ~m.ok
                          THEN /\ Return(Err(m.err), NoOutputs)
                               /\ UNCHANGED <<states, input_hash, transform>>
                          ELSE /\ states' = p.states
                               /\ input_hash' = p.hash
                               /\ IF ~tr.ok
                                  THEN /\ Return(Err(tr.err), NoOutputs)
                                       /\ UNCHANGED transform
                                  ELSE /\ transform' = tr.spec
                                       /\ pc' = "fire"
                                       /\ UNCHANGED <<result, history>>
    /\ UNCHANGED <<registry, traces, tmp, uuid, clock, graph_spec, input_state_hash,
                   outputs, exec_id, input_file, output_file, child, attempts, entry>>
    /\ UNCHANGED <<client_vars, conc_vars, wave_vars>>

\* run_transform_with_io up to the split of exec_command: the input temp file
\* is written and the output path reserved
Materialize ==
    /\ pc = "fire"
    /\ LET input_val == LoadState(states, input_hash)
           parts == SplitWhitespace(transform.exec_command)
       IN  IF ~input_val.ok
           THEN /\ Return(Err(input_val.err), NoOutputs)
                /\ UNCHANGED <<tmp, uuid, input_file, output_file>>
           ELSE /\ input_file' = TmpFile("input", uuid)
                /\ output_file' = TmpFile("output", uuid + 1)
                /\ uuid' = uuid + 2
                /\ tmp' = WriteFile(tmp, TmpFile("input", uuid), ToVec(input_val.val))
                /\ IF parts = <<>>
                   THEN Return(Err("empty exec_command"), NoOutputs)
                   ELSE /\ pc' = "spawn"
                        /\ UNCHANGED <<result, history>>
    /\ UNCHANGED <<states, registry, traces, clock, graph_spec, input_state_hash,
                   outputs, topo, exec_id, node, input_hash, transform, child,
                   attempts, entry>>
    /\ UNCHANGED <<client_vars, conc_vars, wave_vars>>

\* cmd.output() starts the child, or fails to
Spawn ==
    /\ pc = "spawn"
    /\ LET run == Program(SplitWhitespace(transform.exec_command), tmp[input_file])
       IN  IF ~run.spawn
           THEN /\ attempts' = Append(attempts, [node |-> node, outcome |-> "spawn_failed"])
                /\ Return(Err("spawn failed"), NoOutputs)
                /\ UNCHANGED child
           ELSE /\ attempts' = Append(attempts, [node |-> node, outcome |-> "running"])
                /\ pc' = "wait"
                /\ child' = [running |-> TRUE, code |-> 0, stderr |-> ""]
                /\ UNCHANGED <<result, history>>
    /\ UNCHANGED <<store_vars, registry, uuid, clock, graph_spec, input_state_hash,
                   outputs, topo, exec_id, node, input_hash, transform, input_file,
                   output_file, entry>>
    /\ UNCHANGED <<client_vars, conc_vars, wave_vars>>

\* the child process runs to its exit
ChildExit ==
    /\ pc = "wait"
    /\ child.running
    /\ LET run == Program(SplitWhitespace(transform.exec_command), tmp[input_file])
       IN  /\ tmp' = IF run.out = <<>> THEN tmp
                     ELSE WriteFile(tmp, output_file, run.out[1])
           /\ child' = [running |-> FALSE, code |-> run.code, stderr |-> run.stderr]
           /\ attempts' = [attempts EXCEPT ![Len(attempts)].outcome =
                              IF run.code = 0 THEN "exit_zero" ELSE "exit_nonzero"]
    /\ UNCHANGED <<states, registry, traces, uuid, clock, graph_spec, pc,
                   input_state_hash, outputs, topo, exec_id, node, input_hash,
                   transform, input_file, output_file, result, entry, history>>
    /\ UNCHANGED <<client_vars, conc_vars, wave_vars>>

\* cmd.output() has returned: the rest of run_transform_with_io, then
\* emit_trace and outputs.insert
Outcome ==
    /\ pc = "wait"
    /\ ~child.running
    /\ LET c == Collect(states, tmp, transform, input_hash, exec_id, child,
                        input_file, output_file, UuidStr(uuid))
       IN  IF ~c.ok
           THEN /\ Return(Err(c.err), NoOutputs)
                /\ UNCHANGED <<states, traces, tmp, uuid, outputs>>
           ELSE /\ states' = c.states
                /\ tmp' = c.tmp
                /\ uuid' = uuid + 1
                /\ traces' = Append(traces, c.trace)
                /\ outputs' = [k \in DOMAIN outputs \cup {node} |->
                                  IF k = node THEN c.output_hash ELSE outputs[k]]
                /\ pc' = "next"
                /\ UNCHANGED <<result, history>>
    /\ UNCHANGED <<registry, clock, graph_spec, input_state_hash, topo, exec_id,
                   firing_vars, attempts, entry>>
    /\ UNCHANGED <<client_vars, conc_vars, wave_vars>>

\* after the loop: final_outputs, the summary persisted, its hash returned
Finish ==
    /\ pc = "summary"
    /\ \E now \in {clock, clock + 1} :
          LET final_outputs == FinalOutputs(graph_spec.sinks, outputs, 1)
              p == PersistState(states, Summary(exec_id, final_outputs, now))
          IN  /\ clock' = now
              /\ states' = p.states
              /\ Return(Ok(p.hash), final_outputs)
    /\ UNCHANGED <<registry, traces, tmp, uuid, graph_spec, input_state_hash,
                   outputs, topo, exec_id, firing_vars, attempts, entry>>
    /\ UNCHANGED <<client_vars, conc_vars, wave_vars>>

Next ==
    \/ \E h \in InputHashes : ExecuteGraph(h)
    \/ NextNode
    \/ Materialize
    \/ Spawn
    \/ ChildExit
    \/ Outcome
    \/ Finish

Spec == Init /\ [][Next]_vars

\* ================================================================ properties
\* the trace records the current (or last) call has appended
RunTraces == SubSeq(traces, entry.traces + 1, Len(traces))
Returned == pc = "idle" /\ result.status # "none"

DeclaredNames(gs) == {gs.nodes[i].name : i \in 1..Len(gs.nodes)}
EdgeSet(gs) == {<<gs.edges[i].from, gs.edges[i].to>> : i \in 1..Len(gs.edges)}
PredsOf(gs, n) == {e[1] : e \in {d \in EdgeSet(gs) : d[2] = n}}
SuccsOf(gs, n) == {e[2] : e \in {d \in EdgeSet(gs) : d[1] = n}}

RECURSIVE ReachFrom(_, _, _)
\* the names reachable from the set `from` by one or more edges
ReachFrom(gs, from, seen) ==
    LET step == UNION {SuccsOf(gs, n) : n \in from} \ seen
    IN  IF step = {} THEN seen ELSE ReachFrom(gs, step, seen \cup step)
Cyclic(gs) == \E n \in DeclaredNames(gs) : n \in ReachFrom(gs, {n}, {})
UnknownEndpoint(gs) ==
    \E e \in EdgeSet(gs) : e[1] \notin DeclaredNames(gs) \/ e[2] \notin DeclaredNames(gs)

TransformOf(gs, n) == FindNode(gs.nodes, n).transform_id
\* the nodes whose child exited non-zero, resp. zero, in this call
FailedNodes == {attempts[i].node : i \in {j \in 1..Len(attempts) : attempts[j].outcome = "exit_nonzero"}}
ExitZeroNodes == {attempts[i].node : i \in {j \in 1..Len(attempts) : attempts[j].outcome = "exit_zero"}}
IsFailureTrace(t) == t.outputs_hash = EmptyString /\ t.error # <<>>
IsSuccessTrace(t) == t.outputs_hash \in DOMAIN states /\ t.error = <<>>
\* the hashes the traces of this call refer to
TracedHashes ==
    ({RunTraces[i].inputs_hash : i \in 1..Len(RunTraces)}
        \cup {RunTraces[i].outputs_hash : i \in 1..Len(RunTraces)}) \ {EmptyString}

\* C1 (as claimed): a node whose child exited non-zero never has an entry in
\* the outputs map, and a run that stops at a node with such a predecessor
\* stops with the error "Missing output from predecessor".
C1_NoGhostOutput ==
    /\ \A n \in FailedNodes : n \notin DOMAIN outputs
    /\ (Returned /\ node # "" /\ PredsOf(graph_spec, node) \cap FailedNodes # {})
          => result.error = "Missing output from predecessor"

\* C2 (as claimed): on a graph with a directed cycle no child is spawned, no
\* trace appended and no state persisted, and the call returns an error.
C2_CycleRejected ==
    Cyclic(graph_spec) =>
        /\ attempts = <<>>
        /\ Len(traces) = entry.traces
        /\ DOMAIN states = entry.states
        /\ Returned => result.status = "err"

\* C3 (as claimed): every key of the final_outputs of a persisted summary is a
\* sink whose child exited 0 and whose output is in the store; no key maps to
\* the empty string.
C3_FinalOutputsOnlySuccessful ==
    (Returned /\ result.status = "ok") =>
        LET fo == history[Len(history)].final_outputs
        IN  \A s \in DOMAIN fo :
               /\ s \in ExitZeroNodes
               /\ fo[s] # EmptyString
               /\ fo[s] \in DOMAIN states

\* C4 (as claimed): the call has appended one trace record for every firing
\* it attempted and is through with, whatever the outcome.
C4_TraceCompleteness ==
    Len(RunTraces) = (IF pc = "wait" THEN Len(attempts) - 1 ELSE Len(attempts))

\* C5 (as claimed): two completed runs on the same graph and the same input
\* hash return the same summary hash.
C5_SameSummaryHash ==
    \A i, j \in 1..Len(history) :
        (/\ history[i].result.status = "ok"
         /\ history[j].result.status = "ok"
         /\ history[i].input = history[j].input)
        => history[i].result.value = history[j].result.value

\* C5 (amended): two completed runs on the same graph and the same input hash
\* build the same final_outputs map.
C5_SameFinalOutputs ==
    \A i, j \in 1..Len(history) :
        (/\ history[i].result.status = "ok"
         /\ history[j].result.status = "ok"
         /\ history[i].input = history[j].input)
        => history[i].final_outputs = history[j].final_outputs

C5_Witness ==
    /\ Len(history) >= 2
    /\ history[1].result.status = "ok"
    /\ history[2].result.status = "ok"
    /\ history[1].input = history[2].input
    /\ history[1].result.value # history[2].result.value
    /\ \E s \in DOMAIN history[1].final_outputs :
          history[1].final_outputs[s] # EmptyString

\* C6 (as claimed): a spawn failure is recorded as a failure trace and does
\* not make the call return an error.
C6_SpawnFailureIsTransformFailure ==
    \A i \in 1..Len(attempts) :
        attempts[i].outcome = "spawn_failed" =>
            /\ i <= Len(RunTraces)
            /\ IsFailureTrace(RunTraces[i])
            /\ ~(Returned /\ result.error = "spawn failed")

\* C7 (as claimed): whenever the firing routine is not running, tmp holds no
\* file that this call created.
C7_TempFilesReleased ==
    pc \in {"idle", "next", "summary"} => DOMAIN tmp \subseteq entry.tmp

\* the graphs of C8: well-formed and acyclic, every transform exits 0 with a
\* JSON output or exits non-zero, and the nodes that fail have no successor
Succeeds(id) == id \in {"cat", "echo7"}
Fails(id) == id = "false"
PartialCase ==
    /\ ~UnknownEndpoint(graph_spec)
    /\ ~Cyclic(graph_spec)
    /\ input_state_hash \in entry.states
    /\ \A n \in DeclaredNames(graph_spec) :
          \/ Succeeds(TransformOf(graph_spec, n))
          \/ Fails(TransformOf(graph_spec, n)) /\ SuccsOf(graph_spec, n) = {}
    /\ \E n \in DeclaredNames(graph_spec) : Fails(TransformOf(graph_spec, n))

\* C8: when the only failures are children exiting non-zero at nodes that no
\* node has as predecessor, the call fires every node, appends a failure
\* trace for each failed one, and returns the hash of a stored summary whose
\* final_outputs maps every sink that succeeded to its output hash.
C8_PartialSuccess ==
    (PartialCase /\ Returned) =>
        /\ result.status = "ok"
        /\ result.value \in DOMAIN states
        /\ Len(attempts) = Len(graph_spec.nodes)
        /\ {attempts[i].node : i \in 1..Len(attempts)} = DeclaredNames(graph_spec)
        /\ Len(RunTraces) = Len(attempts)
        /\ \A i \in 1..Len(attempts) :
              /\ RunTraces[i].transform_id = TransformOf(graph_spec, attempts[i].node)
              /\ Fails(RunTraces[i].transform_id) => IsFailureTrace(RunTraces[i])
              /\ Succeeds(RunTraces[i].transform_id) =>
                    /\ IsSuccessTrace(RunTraces[i])
                    /\ \A k \in 1..Len(graph_spec.sinks) :
                          graph_spec.sinks[k] = attempts[i].node =>
                             /\ attempts[i].node \in DOMAIN history[Len(history)].final_outputs
                             /\ history[Len(history)].final_outputs[attempts[i].node]
                                   = RunTraces[i].outputs_hash

C8_Witness ==
    /\ PartialCase
    /\ Returned
    /\ \E i \in 1..Len(RunTraces) : IsFailureTrace(RunTraces[i])
    /\ \E s \in DOMAIN history[Len(history)].final_outputs :
          history[Len(history)].final_outputs[s] \in DOMAIN states
    /\ \E i \in 1..(Len(attempts) - 1) : attempts[i].outcome = "exit_nonzero"

\* the call has reached a node one of whose predecessors failed
AtFailedPredecessor == node # "" /\ PredsOf(graph_spec, node) \cap FailedNodes # {}

\* C9: a call that reaches a node with a failed predecessor has returned an
\* error there; it has spawned no child for that node, its trace records are
\* those of the nodes fired before (a failure trace for each failed one), and
\* the store holds nothing but what it held at the call and the inputs and
\* outputs of those records (no input of that node, no summary).
C9_AbortAtFailedPredecessor ==
    AtFailedPredecessor =>
        /\ pc = "idle"
        /\ result.status = "err"
        /\ \A i \in 1..Len(attempts) : attempts[i].node # node
        /\ Len(RunTraces) = Len(attempts)
        /\ \A i \in 1..Len(attempts) :
              /\ RunTraces[i].transform_id = TransformOf(graph_spec, attempts[i].node)
              /\ attempts[i].outcome = "exit_nonzero" => IsFailureTrace(RunTraces[i])
              /\ attempts[i].outcome = "exit_zero" => IsSuccessTrace(RunTraces[i])
        /\ DOMAIN states = entry.states \cup TracedHashes

C9_Witness ==
    /\ AtFailedPredecessor
    /\ Returned
    /\ Len(RunTraces) = 2
    /\ IsSuccessTrace(RunTraces[1])
    /\ IsFailureTrace(RunTraces[2])
    /\ DeclaredNames(graph_spec) \ ({attempts[i].node : i \in 1..Len(attempts)} \cup {node}) = {}

\* C10: on a graph with an edge whose endpoint is not a declared node, every
\* call returns an error without spawning a child, appending a trace, writing
\* a temp file or persisting a state.
C10_UnknownEndpointRejected ==
    UnknownEndpoint(graph_spec) =>
        /\ pc = "idle"
        /\ attempts = <<>>
        /\ traces = <<>>
        /\ tmp = NoTmp
        /\ states = InitStates
        /\ \A i \in 1..Len(history) :
              history[i].result.status = "err"
              /\ history[i].result.error \in {"edge from unknown node", "edge to unknown node"}

C10_Witness ==
    /\ UnknownEndpoint(graph_spec)
    /\ Len(history) >= 1
    /\ graph_spec.edges[Len(graph_spec.edges)].to \notin DeclaredNames(graph_spec)
    /\ graph_spec.edges[1].from \in DeclaredNames(graph_spec)

AttemptNodes == {attempts[i].node : i \in 1..Len(attempts)}
AttemptDone(i) == attempts[i].outcome \in {"exit_zero", "exit_nonzero"}

\* C11: on an acyclic graph a child is started for a node only after the
\* firing of each of its predecessors is through, no child is running but
\* that of the last node started, and the trace records of the call stand in
\* an order in which no node comes before one of its ancestors.
C11_TopologicalSequential ==
    (~Cyclic(graph_spec) /\ ~UnknownEndpoint(graph_spec)) =>
        /\ \A i \in 1..Len(attempts) :
              /\ \A p \in PredsOf(graph_spec, attempts[i].node) :
                    \E j \in 1..(i - 1) : attempts[j].node = p /\ AttemptDone(j)
              /\ attempts[i].outcome = "running" => (i = Len(attempts) /\ child.running)
              /\ \A j \in 1..(i - 1) : attempts[j].node # attempts[i].node
        /\ child.running => (pc = "wait" /\ attempts[Len(attempts)].outcome = "running")
        /\ Len(RunTraces) <= Len(attempts)
        /\ \A i \in 1..Len(RunTraces) :
              /\ RunTraces[i].transform_id = TransformOf(graph_spec, attempts[i].node)
              /\ \A j \in 1..(i - 1) :
                    attempts[j].node \notin ReachFrom(graph_spec, {attempts[i].node}, {})

C11_Witness ==
    /\ ~Cyclic(graph_spec)
    /\ Len(RunTraces) = 3
    /\ Cardinality(PredsOf(graph_spec, attempts[3].node)) = 2
    /\ Returned

Firing == pc \in {"fire", "spawn", "wait"}
\* the graph_spec with every repeated edge dropped
RECURSIVE DedupEdges(_, _)
DedupEdges(edges, acc) ==
    IF edges = <<>> THEN acc
    ELSE DedupEdges(Tail(edges),
                    IF \E i \in 1..Len(acc) : acc[i] = Head(edges)
                    THEN acc ELSE Append(acc, Head(edges)))
WithoutDuplicates(gs) == [gs EXCEPT !.edges = DedupEdges(gs.edges, <<>>)]
\* the names of the predecessors of name n as gs's graph lists them
PredNames(gs, n) ==
    LET graph == BuildGraph(gs)
        inc == Incoming(graph, NodeIndexOf(gs.nodes, n))
    IN  [i \in 1..Len(inc) |-> graph.names[inc[i]]]

\* C16 (as claimed): the input assembled for a node is the one assembled on
\* the graph without its repeated edges.
C16_DuplicateEdgesRedundant ==
    Firing =>
        input_hash = Sha256Hex(ToVec(JArr(
            MergeInputs(states, PredNames(WithoutDuplicates(graph_spec), node),
                        outputs, input_state_hash).merged)))

\* C17: the input of the node being fired is stored under input_hash and is
\* an array: of the root input alone when the node has no incoming edge,
\* else of the stored outputs of its predecessors, each of them and nothing
\* else; the child is handed these bytes; the trace of the firing carries
\* input_hash.
C17_InputAssembly ==
    /\ Firing =>
          LET in == LoadState(states, input_hash)
              ps == PredsOf(graph_spec, node)
          IN  /\ in.ok
              /\ in.val.t = "arr"
              /\ states[input_hash] = ToVec(in.val)
              /\ IF ps = {}
                 THEN in.val.a = <<LoadState(states, input_state_hash).val>>
                 ELSE /\ ps \subseteq DOMAIN outputs
                      /\ \A p \in ps : \E i \in 1..Len(in.val.a) :
                            in.val.a[i] = LoadState(states, outputs[p]).val
                      /\ \A i \in 1..Len(in.val.a) : \E p \in ps :
                            in.val.a[i] = LoadState(states, outputs[p]).val
              /\ pc \in {"spawn", "wait"} => tmp[input_file] = states[input_hash]
    /\ (pc = "next" /\ Len(RunTraces) > 0) =>
          RunTraces[Len(RunTraces)].inputs_hash = input_hash

C17_Witness ==
    /\ pc = "next"
    /\ Len(RunTraces) = 3
    /\ Cardinality(PredsOf(graph_spec, node)) = 2
    /\ LoadState(states, input_hash).val.a[1] # LoadState(states, input_hash).val.a[2]
    /\ LoadState(states, RunTraces[1].inputs_hash).val
          = JArr(<<LoadState(states, input_state_hash).val>>)

\* the value of key in a JSON object, null when it has none
ObjGet(obj, key) ==
    LET hits == {i \in 1..Len(obj.kv) : obj.kv[i][1] = key}
    IN  IF hits = {} THEN JNull ELSE obj.kv[CHOOSE i \in hits : TRUE][2]
\* the execution_id in the summary the k-th call returned
SummaryExecId(k) == ObjGet(LoadState(states, history[k].result.value).val, KeyExecutionId)
\* the number of the call that appended line i of the trace log
RunIndex(i) == Cardinality({k \in 1..Len(history) : history[k].to < i})

C19_MissingTransformAborts ==
    (node # "" /\ TransformOf(graph_spec, node) \notin DOMAIN registry) =>
        /\ pc = "idle"
        /\ result.status = "err"
        /\ result.error \in {"transform not found", "state not found"}
        /\ node \notin AttemptNodes
        /\ Len(RunTraces) = Len(attempts)
        /\ \A i \in 1..Len(attempts) :
              /\ RunTraces[i].transform_id = TransformOf(graph_spec, attempts[i].node)
              /\ AttemptDone(i)
        /\ DOMAIN states \subseteq entry.states \cup TracedHashes \cup {input_hash}
        /\ \A h \in DOMAIN states : FromSlice(states[h]).val.t # "obj"

C19_Witness ==
    /\ node # ""
    /\ TransformOf(graph_spec, node) \notin DOMAIN registry
    /\ result.error = "transform not found"
    /\ Len(RunTraces) = 1
    /\ IsSuccessTrace(RunTraces[1])
    /\ Len(graph_spec.nodes) = 3
    /\ Len(history) = 1

\* ============================================== a client of store and registry
\* number of persist_state and create_transform calls of the client
MaxCalls == 3

\* the values the client persists: one new to the store, one that is stored
\* from the start
PersistDocs == {JNum(3), JNum(1)}
\* the spec the client registers: it has no id, the kernel generates one
CreateSpecs == { [id |-> "", exec_command |-> <<"cat">>] }

\* persist_state called by the client
PersistCall(v) ==
    /\ pc = "idle"
    /\ Len(calls) < MaxCalls
    /\ LET p == PersistState(states, v)
       IN  /\ states' = p.states
           /\ calls' = Append(calls,
                 [op |-> "persist", value |-> v, hash |-> p.hash, wrote |-> p.wrote,
                  present |-> Sha256Hex(ToVec(v)) \in DOMAIN states])
    /\ UNCHANGED <<registry, traces, tmp, uuid, clock, graph_spec, pc,
                   input_state_hash, outputs, topo, exec_id, firing_vars, result,
                   attempts, entry, history, last_load, conc_vars, wave_vars>>

\* load_state called by the client
LoadCall(h) ==
    /\ pc = "idle"
    /\ Len(calls) < MaxCalls
    /\ LET r == LoadState(states, h)
       IN  last_load' = [hash |-> h, found |-> h \in DOMAIN states,
                         bytes |-> IF r.ok THEN ToVec(r.val) ELSE <<>>, ok |-> r.ok]
    /\ calls' = Append(calls, [op |-> "load", hash |-> h])
    /\ UNCHANGED <<kernel_vars, conc_vars, wave_vars>>

\* create_transform called by the client
CreateTransform(spec) ==
    /\ pc = "idle"
    /\ Len(calls) < MaxCalls
    /\ LET id == IF spec.id = "" THEN "uuid-" \o ToString(uuid) ELSE spec.id
           spec_with_id == [spec EXCEPT !.id = id]
       IN  /\ registry' = [k \in DOMAIN registry \cup {id} |->
                              IF k = id THEN spec_with_id ELSE registry[k]]
           /\ uuid' = IF spec.id = "" THEN uuid + 1 ELSE uuid
           /\ calls' = Append(calls,
                 [op |-> "create", value |-> JNull, hash |-> EmptyString,
                  wrote |-> TRUE, present |-> id \in DOMAIN registry])
    /\ UNCHANGED <<states, traces, tmp, clock, graph_spec, pc,
                   input_state_hash, outputs, topo, exec_id, firing_vars, result,
                   attempts, entry, history, last_load, conc_vars, wave_vars>>

\* the graphs the client submits between its calls
StoreGraphs ==
    {g \in GraphSpecs :
        \/ Len(g.nodes) = 1 /\ g.edges = <<>> /\ g.nodes[1].transform_id = "ghost"
        \/ /\ g.edges = <<Edge("A", "B")>>
           /\ g.nodes[1].transform_id = "cat"
           /\ g.nodes[2].transform_id = "echo7"}
\* the hash the client loads: stored only once the client persisted its value
LoadHashes == {Sha256Hex(ToVec(JNum(3)))}

\* the input hashes the client submits: one stored from the start, one stored
\* only once the client persisted its value
StoreInputs == {Sha256Hex(ToVec(JNum(1))), Sha256Hex(ToVec(JNum(3)))}

InitStore == Init /\ graph_spec \in StoreGraphs

NextStore ==
    \/ \E h \in StoreInputs : ExecuteGraph(h)
    \/ NextNode
    \/ Materialize
    \/ Spawn
    \/ ChildExit
    \/ Outcome
    \/ Finish
    \/ \E v \in PersistDocs : PersistCall(v)
    \/ \E h \in LoadHashes : LoadCall(h)
    \/ \E spec \in CreateSpecs : CreateTransform(spec)

SpecStore == InitStore /\ [][NextStore]_vars

PersistCalls == {i \in 1..Len(calls) : calls[i].op = "persist"}

\* C12: the persist_state calls made with one value all return the same
\* hash; a call writes the file exactly when it was absent, so only the
\* first of them can write; one file holds the value afterwards.
C12_PersistIdempotent ==
    \A i \in PersistCalls :
        /\ calls[i].wrote <=> ~calls[i].present
        /\ calls[i].hash \in DOMAIN states
        /\ Cardinality({h \in DOMAIN states : states[h] = ToVec(calls[i].value)}) = 1
        /\ \A j \in PersistCalls :
              (i < j /\ calls[i].value = calls[j].value) =>
                 /\ calls[j].hash = calls[i].hash
                 /\ ~calls[j].wrote

C12_Witness ==
    \E i, j \in PersistCalls :
        /\ i < j
        /\ calls[i].value = calls[j].value
        /\ calls[i].wrote
        /\ ~calls[j].wrote

\* every state file holds the bytes that hash to its name, and loading it
\* and persisting the result gives its name back without a write
StoreAddressed ==
    \A h \in DOMAIN states :
        /\ Sha256Hex(states[h]) = h
        /\ LoadState(states, h).ok
        /\ PersistState(states, LoadState(states, h).val).hash = h
        /\ ~PersistState(states, LoadState(states, h).val).wrote
\* a step keeps every state file and its bytes
StoreImmutable ==
    \A h \in DOMAIN states : h \in DOMAIN states' /\ states'[h] = states[h]

\* C13: whatever persist_state, load_state, create_transform and
\* execute_graph calls are made one after the other, every state file holds
\* the bytes that hash to its name, and no step changes or deletes one.
C13_StoreInvariant == []StoreAddressed /\ [][StoreImmutable]_vars

C13_Witness ==
    /\ \E i \in PersistCalls : calls[i].wrote
    /\ \E h \in DOMAIN states : FromSlice(states[h]).val.t = "obj"
    /\ \E h \in DOMAIN states : FromSlice(states[h]).val.t = "arr"
    /\ last_load.ok
    /\ \E i \in 1..Len(calls) : calls[i].op = "create"


\* ---------------------------------------------------------------------
\* Several kernel processes on one storage root.  A process is a separate
\* run of the binary: it shares states/ and traces/traces.jsonl with the
\* others and nothing else.  persist_state, load_state and emit_trace are
\* split at their file system calls.
\* ---------------------------------------------------------------------

\* calls one process makes
MaxOps == 2
\* the values the processes persist
ConcDocs == {JNum(3), JArr(<<JNum(3)>>)}
\* the hashes the processes load
ConcHashes == {Sha256Hex(ToVec(d)) : d \in ConcDocs}

\* what the steps of the processes leave alone in the kernel's state
kernel_rest == <<registry, traces, tmp, uuid, clock, graph_spec, pc, input_state_hash,
                 outputs, topo, exec_id, firing_vars, result, attempts, entry, history>>

\* persist_state, up to the hash and the path (lines 79-83)
PersistBegin(p, payload) ==
    /\ cpc[p] = "idle"
    /\ cops[p] < MaxOps
    /\ cops' = [cops EXCEPT ![p] = @ + 1]
    /\ cjob' = [cjob EXCEPT ![p] = [hash |-> Sha256Hex(ToVec(payload)),
                                    bytes |-> ToVec(payload)]]
    /\ cpc' = [cpc EXCEPT ![p] = "exists"]
    /\ UNCHANGED <<states, cobs, trace_file, kernel_rest, client_vars, wave_vars>>

\* if !path.exists() (line 85)
PathExists(p) ==
    /\ cpc[p] = "exists"
    /\ cpc' = [cpc EXCEPT ![p] = IF cjob[p].hash \in DOMAIN states THEN "idle" ELSE "create"]
    /\ UNCHANGED <<states, cjob, cobs, cops, trace_file, kernel_rest, client_vars, wave_vars>>

\* fs::write, first half: File::create opens the path itself, creating it
\* or truncating what is there (line 86)
FileCreate(p) ==
    /\ cpc[p] = "create"
    /\ states' = WriteFile(states, cjob[p].hash, <<>>)
    /\ cpc' = [cpc EXCEPT ![p] = "write"]
    /\ UNCHANGED <<cjob, cobs, cops, trace_file, kernel_rest, client_vars, wave_vars>>

\* fs::write, second half: write_all of the bytes from offset 0 (line 86)
FileWriteAll(p) ==
    /\ cpc[p] = "write"
    /\ states' = WriteFile(states, cjob[p].hash, cjob[p].bytes)
    /\ cpc' = [cpc EXCEPT ![p] = "idle"]
    /\ UNCHANGED <<cjob, cobs, cops, trace_file, kernel_rest, client_vars, wave_vars>>

\* load_state: fs::read takes the file as it is now, from_slice parses it
\* (lines 92-98)
LoadStateNow(p, h) ==
    /\ cpc[p] = "idle"
    /\ cops[p] < MaxOps
    /\ cops' = [cops EXCEPT ![p] = @ + 1]
    /\ cobs' = [cobs EXCEPT ![p] =
                  [hash |-> h, found |-> h \in DOMAIN states,
                   bytes |-> IF h \in DOMAIN states THEN states[h] ELSE <<>>,
                   ok |-> LoadState(states, h).ok]]
    /\ UNCHANGED <<states, cpc, cjob, trace_file, kernel_rest, client_vars, wave_vars>>

\* the JSON text of the record a process emits with its k-th call: the
\* records differ, their fields do not matter here
TraceJson(p, k) == ToVec(JArr(<<JNum(p), JNum(k)>>))

\* emit_trace, up to the text of the record: the file is opened in append
\* mode, without a buffer (lines 102-107)
EmitBegin(p) ==
    /\ cpc[p] = "idle"
    /\ cops[p] < MaxOps
    /\ cops' = [cops EXCEPT ![p] = @ + 1]
    /\ cjob' = [cjob EXCEPT ![p] = [hash |-> EmptyString, bytes |-> TraceJson(p, cops[p] + 1)]]
    /\ cpc' = [cpc EXCEPT ![p] = "emit_json"]
    /\ UNCHANGED <<states, cobs, trace_file, kernel_rest, client_vars, wave_vars>>

\* writeln!(f, "{}", json): write_fmt hands the argument to the file in one
\* write (line 108)
EmitJson(p) ==
    /\ cpc[p] = "emit_json"
    /\ trace_file' = trace_file \o cjob[p].bytes
    /\ cpc' = [cpc EXCEPT ![p] = "emit_nl"]
    /\ UNCHANGED <<states, cjob, cobs, cops, kernel_rest, client_vars, wave_vars>>

\* and the "\n" of the format string in another (line 108)
EmitNewline(p) ==
    /\ cpc[p] = "emit_nl"
    /\ trace_file' = Append(trace_file, NL)
    /\ cpc' = [cpc EXCEPT ![p] = "idle"]
    /\ UNCHANGED <<states, cjob, cobs, cops, kernel_rest, client_vars, wave_vars>>

\* the store starts with the root states; the kernel's own variables stay
\* as they are, one graph is fixed for them
InitConc ==
    /\ Init
    /\ graph_spec = CHOOSE g \in StoreGraphs : Len(g.nodes) = 1

NextConc ==
    \E p \in Procs :
        \/ \E payload \in ConcDocs : PersistBegin(p, payload)
        \/ PathExists(p)
        \/ FileCreate(p)
        \/ FileWriteAll(p)
        \/ \E h \in ConcHashes : LoadStateNow(p, h)
        \/ EmitBegin(p)
        \/ EmitJson(p)
        \/ EmitNewline(p)

SpecConc == InitConc /\ [][NextConc]_vars

\* C14: a state file is either absent or holds its complete content, and
\* what a load_state found in a file is its complete content.
C14_AtomicStateWrites ==
    /\ \A h \in DOMAIN states : Sha256Hex(states[h]) = h
    /\ \A p \in Procs : cobs[p].found => Sha256Hex(cobs[p].bytes) = cobs[p].hash

RECURSIVE SplitLines(_, _, _)
\* the lines of a file that are terminated by a newline, without it
SplitLines(bytes, i, line) ==
    IF i > Len(bytes) THEN <<>>
    ELSE IF bytes[i] = NL THEN <<line>> \o SplitLines(bytes, i + 1, <<>>)
    ELSE SplitLines(bytes, i + 1, Append(line, bytes[i]))

\* C15: every line of traces.jsonl is one complete record: it parses as one
\* JSON value, so it is not empty and holds no pieces of two records.
C15_LineAtomicAppends ==
    LET lines == SplitLines(trace_file, 1, <<>>)
    IN  \A i \in 1..Len(lines) : FromSlice(lines[i]).ok


\* ---------------------------------------------------------------------
\* Wavefield (engine-core/src/compute/wave.rs), as the wasm wrapper drives
\* it: new, seed_point, step and reset on one field.  The f32 cells hold
\* small integers, which f32 represents exactly; a cell (x, y) is the
\* element y * width + x of a buffer, here element y * width + x + 1.
\* ---------------------------------------------------------------------

\* largest width and height, and largest coordinate passed to seed_point
MaxDim == 2
\* calls made on one field
MaxWaveOps == 3
\* the values seeded
SeedValues == {1, 2}
\* the (c, dt, dx) of a step: c * dt / dx is a whole number for each
StepArgs == {<<1, 1, 1>>, <<2, 1, 1>>, <<2, 1, 2>>}

\* vec![0.0; len]
Zeros(len) == [i \in 1..len |-> 0]

\* Wavefield::new
New(w, h) ==
    [width |-> w, height |-> h,
     prev |-> Zeros(w * h), curr |-> Zeros(w * h), next |-> Zeros(w * h)]

\* Wavefield::len
WaveLen == width * height

\* the call made and the buffers it found
Called(op, x, y, value) ==
    /\ wops < MaxWaveOps
    /\ wops' = wops + 1
    /\ wlast' = [op |-> op, x |-> x, y |-> y, value |-> value,
                 prev |-> prev, curr |-> curr, next |-> next]

\* Wavefield::reset
Reset ==
    /\ Called("reset", 0, 0, 0)
    /\ prev' = Zeros(Len(prev))
    /\ curr' = Zeros(Len(curr))
    /\ next' = Zeros(Len(next))
    /\ UNCHANGED <<width, height, kernel_vars, client_vars, conc_vars>>

\* Wavefield::seed_point
SeedPoint(x, y, value) ==
    /\ Called("seed", x, y, value)
    /\ curr' = IF x < width /\ y < height
               THEN [curr EXCEPT ![y * width + x + 1] = value]
               ELSE curr
    /\ UNCHANGED <<width, height, prev, next, kernel_vars, client_vars, conc_vars>>

\* the idx helper of step: 0 stands for None
Idx(x, y) ==
    IF x < 0 \/ y < 0 THEN 0
    ELSE IF x >= width \/ y >= height THEN 0
    ELSE y * width + x + 1

\* a neighbour's value, the centre's when the neighbour is outside
Neighbour(x, y, center) == IF Idx(x, y) = 0 THEN center ELSE curr[Idx(x, y)]

\* the cell of next that step computes at index i
Stencil(i, coeff) ==
    LET x == (i - 1) % width
        y == (i - 1) \div width
        center == curr[i]
        left == Neighbour(x - 1, y, center)
        right == Neighbour(x + 1, y, center)
        up == Neighbour(x, y - 1, center)
        down == Neighbour(x, y + 1, center)
        lap == left + right + up + down - 4 * center
    IN  2 * center - prev[i] + coeff * lap

\* variant: step computes next and leaves the buffers where they are
StepInPlace(c, dt, dx) ==
    /\ Called("step", c, dt, dx)
    /\ IF WaveLen = 0
       THEN UNCHANGED <<prev, curr, next>>
       ELSE LET coeff == ((c * dt) \div dx) * ((c * dt) \div dx)
            IN  /\ next' = [i \in 1..WaveLen |-> Stencil(i, coeff)]
                /\ UNCHANGED <<prev, curr>>
    /\ UNCHANGED <<width, height, kernel_vars, client_vars, conc_vars>>

\* Wavefield::step: compute next, rotate the buffers, clear next
Step(c, dt, dx) ==
    /\ Called("step", c, dt, dx)
    /\ IF WaveLen = 0
       THEN UNCHANGED <<prev, curr, next>>
       ELSE LET coeff == ((c * dt) \div dx) * ((c * dt) \div dx)
                computed == [i \in 1..WaveLen |-> Stencil(i, coeff)]
            IN  /\ prev' = curr
                /\ curr' = computed
                /\ next' = Zeros(Len(prev))
    /\ UNCHANGED <<width, height, kernel_vars, client_vars, conc_vars>>

\* a field fresh from Wavefield::new, of any size up to MaxDim
InitWave ==
    /\ KernelInit
    /\ graph_spec = CHOOSE g \in StoreGraphs : Len(g.nodes) = 1
    /\ ClientInit
    /\ ConcInit
    /\ \E w, h \in 0..MaxDim :
          /\ width = New(w, h).width
          /\ height = New(w, h).height
          /\ prev = New(w, h).prev
          /\ curr = New(w, h).curr
          /\ next = New(w, h).next
    /\ wlast = NoCall
    /\ wops = 0

NextWave ==
    \/ \E x, y \in 0..MaxDim : \E value \in SeedValues : SeedPoint(x, y, value)
    \/ \E a \in StepArgs : Step(a[1], a[2], a[3])
    \/ Reset

SpecWave == InitWave /\ [][NextWave]_vars

Min(a, b) == IF a < b THEN a ELSE b

\* C20: seed_point on a non-empty grid writes value into curr at the cell
\* (min(x, width-1), min(y, height-1)), also when x or y is outside the
\* grid, and changes no other cell of curr and nothing in prev or next.
C20_SeedPointClamps ==
    (wlast.op = "seed" /\ WaveLen > 0) =>
        /\ curr = [wlast.curr EXCEPT
                     ![Min(wlast.y, height - 1) * width + Min(wlast.x, width - 1) + 1] =
                        wlast.value]
        /\ prev = wlast.prev
        /\ next = wlast.next


\* C21: every trace record in the log has an inputs_hash that names a state
\* file in the store, and is either a failure trace (outputs_hash empty,
\* error set) or a success trace (outputs_hash names a state file in the
\* store, error not set); none has both an outputs_hash and an error.
C21_TraceReferentialIntegrity ==
    \A i \in 1..Len(traces) :
        /\ traces[i].inputs_hash \in DOMAIN states
        /\ IsFailureTrace(traces[i]) \/ IsSuccessTrace(traces[i])
        /\ ~(traces[i].outputs_hash # EmptyString /\ traces[i].error # <<>>)

\* a log with a success trace whose output the run stored, and a failure
\* trace whose input is a merged input the run stored
C21_Witness ==
    /\ \E i \in 1..Len(traces) :
          /\ IsSuccessTrace(traces[i])
          /\ traces[i].outputs_hash \notin DOMAIN InitStates
    /\ \E i \in 1..Len(traces) :
          /\ IsFailureTrace(traces[i])
          /\ traces[i].inputs_hash \notin DOMAIN InitStates


\* the discretization of the module's header, written over the cells of the
\* grid: u(t+dt) = 2 u(t) - u(t-dt) + (c dt / dx)^2 * Laplacian(u(t)), the
\* Laplacian summing the differences to the neighbours that are in the grid
InGrid(x, y) == x >= 0 /\ x < width /\ y >= 0 /\ y < height
Diff(u, x, y, nx, ny) ==
    IF InGrid(nx, ny) THEN u[ny * width + nx + 1] - u[y * width + x + 1] ELSE 0
Laplacian(u, x, y) ==
    Diff(u, x, y, x - 1, y) + Diff(u, x, y, x + 1, y)
        + Diff(u, x, y, x, y - 1) + Diff(u, x, y, x, y + 1)
\* the field after one step from the buffers and the arguments of the last call
Advanced ==
    LET r == (wlast.x * wlast.y) \div wlast.value
    IN  [i \in 1..WaveLen |->
            2 * wlast.curr[i] - wlast.prev[i]
                + r * r * Laplacian(wlast.curr, (i - 1) % width, (i - 1) \div width)]

\* C22: prev, curr and next always have length width * height; a step on a
\* non-empty field leaves prev equal to the curr of before, curr equal to
\* the newly computed field and next all zeros; a step on an empty field
\* changes nothing.
C22_BufferRotation ==
    /\ Len(prev) = width * height
    /\ Len(curr) = width * height
    /\ Len(next) = width * height
    /\ (wlast.op = "step" /\ WaveLen > 0) =>
          /\ prev = wlast.curr
          /\ curr = Advanced
          /\ \A i \in 1..Len(next) : next[i] = 0
    /\ (wlast.op = "step" /\ WaveLen = 0) =>
          /\ prev = wlast.prev
          /\ curr = wlast.curr
          /\ next = wlast.next

\* a step on a grid of several cells that had been seeded and stepped
\* before: prev and curr before the step were not zero, and curr moved
C22_Witness ==
    /\ wlast.op = "step"
    /\ WaveLen > 1
    /\ \E i \in 1..WaveLen : wlast.prev[i] # 0
    /\ \E i \in 1..WaveLen : wlast.curr[i] # 0
    /\ curr # wlast.curr
    /\ curr # wlast.prev

====
